---------------------------- MODULE Spec2Model ----------------------------
(***************************************************************************)
(* A model of untitled10.py: a Streamlit page over five Hugging Face       *)
(* pipelines.                                                              *)
(*                                                                         *)
(* One process serves several browser sessions.  Every user interaction   *)
(* re-executes the whole script for that session, in the session's own    *)
(* thread.  The script first calls load_pipelines(), which is wrapped by  *)
(* @st.cache_resource: a process-wide cache that is read without a lock,  *)
(* and on a miss is read again and filled under a lock; it stores whatever *)
(* the function returns, None included.  The script then reads the task   *)
(* selector, stops when the registry is falsy, and otherwise renders the  *)
(* selected task's panel and, when the panel's button was clicked, calls  *)
(* the task's handle.                                                      *)
(***************************************************************************)
EXTENDS Integers, Sequences, FiniteSets, TLC

(***************************************************************************)
(* Bounds of the model.                                                    *)
(***************************************************************************)
\* Browser sessions served by the one process.
NumSessions == 2
\* Longest text a user types into a text area.
MaxTextLen == 1
\* Runs of the body of load_pipelines() the model follows.
MaxBuilds == 3

(***************************************************************************)
(* Constants of the program.                                               *)
(***************************************************************************)
GenMaxLenLo == 50
GenMaxLenHi == 500
GenMaxLenDefault == 200
NumReturnSequences == 1
SumMaxLenLo == 20
SumMaxLenHi == 200
SumMaxLenDefault == 60
SumMinLenLo == 10
SumMinLenGap == 10
SumMinLenDefault == 20

Sessions == 1..NumSessions

\* The keys of the dict literal, in the order Python evaluates its values.
KeyOrder == <<"text_gen", "summarizer", "sentiment", "ner", "grammar">>

Keys == {KeyOrder[i] : i \in 1..Len(KeyOrder)}

\* The options of the sidebar selectbox.
Tasks == {"Text Generation", "Summarization", "Sentiment Analysis",
          "Named Entity Recognition (NER)", "Grammar Correction"}

\* The registry key each task branch subscripts pipes with.
HandleKey(task) ==
    CASE task = "Text Generation" -> "text_gen"
      [] task = "Summarization" -> "summarizer"
      [] task = "Sentiment Analysis" -> "sentiment"
      [] task = "Named Entity Recognition (NER)" -> "ner"
      [] task = "Grammar Correction" -> "grammar"

(***************************************************************************)
(* Values of the registry.  A dict is the object built by one run of the   *)
(* body of load_pipelines (obj: which run) with the keys it holds; the     *)
(* handle under key k of dict d is the object <<k, d.obj>>.                *)
(***************************************************************************)
\* Python's None, returned by the except branch.
None == [obj |-> 0, keys |-> {}]

\* The module variable pipes before line 32 has assigned it.
Unassigned == [obj |-> -1, keys |-> {}]

\* The dict literal with its first n values evaluated, in build number obj.
Dict(n, obj) == [obj |-> obj, keys |-> {KeyOrder[i] : i \in 1..n}]

IsDict(p) == p.obj > 0

\* pipes[key] succeeds: pipes is a dict holding key.
HasHandle(p, key) == IsDict(p) /\ key \in p.keys

Handle(p, key) == <<key, p.obj>>

(***************************************************************************)
(* Text areas: the user may type anything, the empty text included.        *)
(***************************************************************************)
Chars == {" ", "a"}

Texts == UNION {[1..n -> Chars] : n \in 0..MaxTextLen}

\* The values of a slider the model lets the user pick: its minimum, the
\* value next to it, its default and its maximum.
SliderChoices(lo, hi, d) == {lo, lo + 1, d, hi} \cap (lo..hi)

\* The labels a sentiment model may return.
Labels == {"POSITIVE", "NEGATIVE", "NEUTRAL"}

VARIABLES
    pc,          \* where each session's script run stands
    pipes,       \* the module variable pipes of each session's run
    cache,       \* st.cache_resource's entry for load_pipelines()
    lock,        \* the holder of the cache's compute lock, 0 when free
    built,       \* values of the dict literal a running body has evaluated
    builds,      \* how often the body of load_pipelines has been entered
    firstBuilt,  \* history: the first dict a run of the body returned
    failedKey,   \* history: the key whose construction raised
    invocationFailed, \* history: some handle call has raised
    run          \* what the script run that ended last did and showed

vars == <<pc, pipes, cache, lock, built, builds, firstBuilt, failedKey,
          invocationFailed, run>>

\* A script run that has not reached the sidebar.
NoRun ==
    [task |-> "none", registry |-> Unassigned,
     panel |-> "none", text |-> <<>>, max_len |-> 0, min_len |-> 0,
     min_range |-> <<0, 0>>, clicked |-> FALSE, calls |-> <<>>,
     outcome |-> "none", label |-> "", shown |-> ""]

Init ==
    /\ pc = [s \in Sessions |-> "idle"]
    /\ pipes = [s \in Sessions |-> Unassigned]
    /\ cache = [filled |-> FALSE, value |-> Unassigned]
    /\ lock = 0
    /\ built = [s \in Sessions |-> 0]
    /\ builds = 0
    /\ firstBuilt = Unassigned
    /\ failedKey = "none"
    /\ invocationFailed = FALSE
    /\ run = NoRun

(***************************************************************************)
(* @st.cache_resource                                                      *)
(***************************************************************************)
ReadResultUncached == [filled |-> FALSE, value |-> Unassigned]

\* The cache's read of the entry of load_pipelines().
ReadResult == cache

WriteResultSkipNone(v) == IF v = None THEN cache ELSE [filled |-> TRUE, value |-> v]

\* The cache's write of the value the function returned.
WriteResult(v) == [filled |-> TRUE, value |-> v]

(***************************************************************************)
(* load_pipelines()                                                        *)
(***************************************************************************)
OnConstructionErrorPartial(partial) == partial

\* The except branch: whatever was built, the function returns None.
OnConstructionError(partial) == None

\* A user interaction starts a run of the script for the session; the run
\* reaches line 32 and the cache holds a value: it is returned, the body does
\* not run.
CacheHit(s) ==
    /\ pc[s] = "idle"
    /\ ReadResult.filled
    /\ pipes' = [pipes EXCEPT ![s] = ReadResult.value]
    /\ pc' = [pc EXCEPT ![s] = "ui"]
    /\ UNCHANGED <<cache, lock, built, builds, firstBuilt, failedKey,
                   invocationFailed, run>>

\* A user interaction starts a run of the script for the session; the run
\* reaches line 32 and the cache holds nothing: the call goes on to take the
\* lock.
CacheMiss(s) ==
    /\ pc[s] = "idle"
    /\ ~ReadResult.filled
    /\ pc' = [pc EXCEPT ![s] = "lock"]
    /\ UNCHANGED <<pipes, cache, lock, built, builds, firstBuilt, failedKey,
                   invocationFailed, run>>

\* Under the lock the cache is read again: another call has filled it.
LockedHit(s) ==
    /\ pc[s] = "lock"
    /\ lock = 0
    /\ ReadResult.filled
    /\ pipes' = [pipes EXCEPT ![s] = ReadResult.value]
    /\ pc' = [pc EXCEPT ![s] = "ui"]
    /\ UNCHANGED <<cache, lock, built, builds, firstBuilt, failedKey,
                   invocationFailed, run>>

\* Under the lock the cache is still empty: the body of the function starts.
LockedMiss(s) ==
    /\ pc[s] = "lock"
    /\ lock = 0
    /\ ~ReadResult.filled
    /\ builds < MaxBuilds
    /\ lock' = s
    /\ builds' = builds + 1
    /\ built' = [built EXCEPT ![s] = 0]
    /\ pc' = [pc EXCEPT ![s] = "build"]
    /\ UNCHANGED <<pipes, cache, firstBuilt, failedKey, invocationFailed, run>>

\* The next pipeline(...) of the dict literal returns a handle.
ConstructHandle(s) ==
    /\ pc[s] = "build"
    /\ built[s] < Len(KeyOrder)
    /\ built' = [built EXCEPT ![s] = built[s] + 1]
    /\ UNCHANGED <<pc, pipes, cache, lock, builds, firstBuilt, failedKey,
                   invocationFailed, run>>

\* The next pipeline(...) raises: the except branch returns, the cache
\* stores what it returned and the lock is released.
ConstructionRaises(s) ==
    /\ pc[s] = "build"
    /\ built[s] < Len(KeyOrder)
    /\ LET v == OnConstructionError(Dict(built[s], builds))
       IN /\ cache' = WriteResult(v)
          /\ pipes' = [pipes EXCEPT ![s] = v]
    /\ failedKey' = KeyOrder[built[s] + 1]
    /\ built' = [built EXCEPT ![s] = 0]
    /\ lock' = 0
    /\ pc' = [pc EXCEPT ![s] = "ui"]
    /\ UNCHANGED <<builds, firstBuilt, invocationFailed, run>>

\* All five values are built: return pipelines.
ReturnPipelines(s) ==
    /\ pc[s] = "build"
    /\ built[s] = Len(KeyOrder)
    /\ LET v == Dict(built[s], builds)
       IN /\ cache' = WriteResult(v)
          /\ pipes' = [pipes EXCEPT ![s] = v]
          /\ firstBuilt' = IF firstBuilt = Unassigned THEN v ELSE firstBuilt
    /\ built' = [built EXCEPT ![s] = 0]
    /\ lock' = 0
    /\ pc' = [pc EXCEPT ![s] = "ui"]
    /\ UNCHANGED <<builds, failedKey, invocationFailed, run>>

(***************************************************************************)
(* The script after line 32: sidebar, stop check and the task panels.      *)
(***************************************************************************)
StopsRunNever(p) == FALSE

\* if not pipes: st.stop().  None and an empty dict are falsy.
StopsRun(p) == ~IsDict(p) \/ p.keys = {}

RECURSIVE StripLeft(_)
StripLeft(t) == IF t # <<>> /\ Head(t) = " " THEN StripLeft(Tail(t)) ELSE t

RECURSIVE StripRight(_)
StripRight(t) ==
    IF t # <<>> /\ t[Len(t)] = " " THEN StripRight(SubSeq(t, 1, Len(t) - 1)) ELSE t

ForwardedTextStripped(t) == StripRight(StripLeft(t))

\* The first argument of every handle call is the text area's value itself.
ForwardedText(t) == t

\* The keyword arguments of each task's handle call.
CallKwargs(task, max_len, min_len) ==
    CASE task = "Text Generation" ->
            {<<"max_length", max_len>>, <<"num_return_sequences", NumReturnSequences>>}
      [] task = "Summarization" ->
            {<<"max_length", max_len>>, <<"min_length", min_len>>}
      [] OTHER -> {}

\* One call of the selected task's handle.
Call(reg, task, text, max_len, min_len) ==
    [handle |-> Handle(reg, HandleKey(task)),
     text |-> ForwardedText(text),
     kwargs |-> CallKwargs(task, max_len, min_len)]

CallsWithRetry(reg, task, text, max_len, min_len, outcome) ==
    IF outcome = "error"
    THEN <<Call(reg, task, text, max_len, min_len), Call(reg, task, text, max_len, min_len)>>
    ELSE <<Call(reg, task, text, max_len, min_len)>>

\* The handle calls one click of a panel's button makes: each branch holds a
\* single call expression, outside any loop or exception handler.
Calls(reg, task, text, max_len, min_len, outcome) ==
    <<Call(reg, task, text, max_len, min_len)>>

\* The label the Sentiment panel prints for a returned label.
ShownLabel(label) == IF label = "POSITIVE" THEN "POSITIVE" ELSE "NEGATIVE"

\* The range st.slider(label, lo, hi, d) offers once it is rendered: a range
\* that does not hold the default is widened to hold it.
SliderRange(lo, hi, d) ==
    <<IF d < lo THEN d ELSE lo, IF d > hi THEN d ELSE hi>>

\* The script run of the session ends; its module variables are discarded.
EndRun(s) ==
    /\ pc' = [pc EXCEPT ![s] = "idle"]
    /\ pipes' = [pipes EXCEPT ![s] = Unassigned]

\* The rest of a task branch once its widgets are read: the button, and on a
\* click the handle call and the display of its result.  An exception (the
\* handle raising, or pipes lacking the key) ends the run with the error shown.
PanelRun(s, task, text, max_len, min_len, rng) ==
    LET shown == [task |-> task, registry |-> pipes[s],
                  panel |-> task, text |-> text, max_len |-> max_len,
                  min_len |-> min_len, min_range |-> rng, clicked |-> FALSE,
                  calls |-> <<>>, outcome |-> "rendered", label |-> "",
                  shown |-> ""]
    IN /\ \E clicked \in BOOLEAN :
            IF ~clicked
            THEN /\ run' = shown
                 /\ UNCHANGED invocationFailed
            ELSE IF ~HasHandle(pipes[s], HandleKey(task))
            THEN /\ run' = [shown EXCEPT !.clicked = TRUE, !.outcome = "error"]
                 /\ UNCHANGED invocationFailed
            ELSE \E outcome \in {"ok", "error"} :
                 \E label \in (IF task = "Sentiment Analysis" /\ outcome = "ok"
                               THEN Labels ELSE {""}) :
                    /\ run' = [shown EXCEPT
                                 !.clicked = TRUE,
                                 !.calls = Calls(pipes[s], task, text, max_len,
                                                 min_len, outcome),
                                 !.outcome = outcome,
                                 !.label = label,
                                 !.shown = IF label = "" THEN ""
                                           ELSE ShownLabel(label)]
                    /\ invocationFailed' = (invocationFailed \/ outcome = "error")
       /\ EndRun(s)
       /\ UNCHANGED <<cache, lock, built, builds, firstBuilt, failedKey>>

\* Lines 39-54 with a falsy registry: the selectbox is read, the run stops.
StopRun(s) ==
    /\ pc[s] = "ui"
    /\ StopsRun(pipes[s])
    /\ \E task \in Tasks :
          run' = [NoRun EXCEPT !.task = task, !.registry = pipes[s],
                               !.outcome = "stopped"]
    /\ EndRun(s)
    /\ UNCHANGED <<cache, lock, built, builds, firstBuilt, failedKey,
                   invocationFailed>>

TextGenerationPanel(s) ==
    /\ pc[s] = "ui"
    /\ ~StopsRun(pipes[s])
    /\ \E text \in Texts :
       \E max_len \in SliderChoices(GenMaxLenLo, GenMaxLenHi, GenMaxLenDefault) :
          PanelRun(s, "Text Generation", text, max_len, 0, <<0, 0>>)

SummarizationPanel(s) ==
    /\ pc[s] = "ui"
    /\ ~StopsRun(pipes[s])
    /\ \E text \in Texts :
       \E max_len \in SliderChoices(SumMaxLenLo, SumMaxLenHi, SumMaxLenDefault) :
          LET rng == SliderRange(SumMinLenLo, max_len - SumMinLenGap, SumMinLenDefault)
          IN \E min_len \in SliderChoices(rng[1], rng[2], SumMinLenDefault) :
                PanelRun(s, "Summarization", text, max_len, min_len, rng)

\* Line 89 when the default lies outside the range passed and the slider
\* rejects it instead of widening the range: the exception ends the run before
\* the Summarize button is reached.
SummarizationSliderRaises(s) ==
    /\ pc[s] = "ui"
    /\ ~StopsRun(pipes[s])
    /\ \E text \in Texts :
       \E max_len \in SliderChoices(SumMaxLenLo, SumMaxLenHi, SumMaxLenDefault) :
          /\ SumMinLenDefault > max_len - SumMinLenGap
          /\ run' = [NoRun EXCEPT
                       !.task = "Summarization", !.registry = pipes[s],
                       !.panel = "Summarization", !.text = text,
                       !.max_len = max_len, !.outcome = "error"]
    /\ EndRun(s)
    /\ UNCHANGED <<cache, lock, built, builds, firstBuilt, failedKey,
                   invocationFailed>>

SentimentPanel(s) ==
    /\ pc[s] = "ui"
    /\ ~StopsRun(pipes[s])
    /\ \E text \in Texts :
          PanelRun(s, "Sentiment Analysis", text, 0, 0, <<0, 0>>)

NERPanel(s) ==
    /\ pc[s] = "ui"
    /\ ~StopsRun(pipes[s])
    /\ \E text \in Texts :
          PanelRun(s, "Named Entity Recognition (NER)", text, 0, 0, <<0, 0>>)

GrammarPanel(s) ==
    /\ pc[s] = "ui"
    /\ ~StopsRun(pipes[s])
    /\ \E text \in Texts :
          PanelRun(s, "Grammar Correction", text, 0, 0, <<0, 0>>)

Next ==
    \E s \in Sessions :
        \/ CacheHit(s)
        \/ CacheMiss(s)
        \/ LockedHit(s)
        \/ LockedMiss(s)
        \/ ConstructHandle(s)
        \/ ConstructionRaises(s)
        \/ ReturnPipelines(s)
        \/ StopRun(s)
        \/ TextGenerationPanel(s)
        \/ SummarizationPanel(s)
        \/ SummarizationSliderRaises(s)
        \/ SentimentPanel(s)
        \/ NERPanel(s)
        \/ GrammarPanel(s)

Spec == Init /\ [][Next]_vars

(***************************************************************************)
(* Properties.                                                             *)
(***************************************************************************)
LoadFailed == failedKey # "none"

CallIndices == 1..Len(run.calls)

\* The parameters the user chose on the panel of a task, as keyword arguments.
UserParams(task, max_len, min_len) ==
    CASE task = "Text Generation" -> {<<"max_length", max_len>>}
      [] task = "Summarization" ->
            {<<"max_length", max_len>>, <<"min_length", min_len>>}
      [] OTHER -> {}

\* C1: over every interleaving of load_pipelines() calls of one process, the
\* body that builds the five handles is entered at most once, and every call
\* that returns a registry returns the dict the first successful build made.
C1_BuiltOnceAndShared ==
    /\ builds <= 1
    /\ \A s \in Sessions : IsDict(pipes[s]) => pipes[s] = firstBuilt
    /\ (cache.filled /\ IsDict(cache.value)) => cache.value = firstBuilt

\* Every session is in a run whose call returned the one registry, after a
\* run that already invoked a handle of it.
C1_Witness ==
    /\ \A s \in Sessions : pc[s] = "ui" /\ IsDict(pipes[s]) /\ pipes[s] = firstBuilt
    /\ run.outcome = "ok"

\* C2: when the construction of any one handle raises, load_pipelines()
\* returns None, and no call ever returns or caches a dict of fewer than five
\* handles.
C2_FailFast ==
    /\ LoadFailed =>
          /\ cache.filled /\ cache.value = None
          /\ \A s \in Sessions : pc[s] = "ui" => pipes[s] = None
    /\ cache.filled => (cache.value = None \/ cache.value.keys = Keys)
    /\ \A s \in Sessions :
          pipes[s] \in {Unassigned, None} \/ pipes[s].keys = Keys

\* The fifth construction raised after four handles were built, and a call
\* has returned None.
C2_Witness ==
    /\ failedKey = "grammar"
    /\ \E s \in Sessions : pc[s] = "ui" /\ pipes[s] = None

\* C3: a script run whose registry is unavailable renders no task panel and
\* invokes no handle, whichever task is selected: it stops.
C3_NoPanelWhenUnavailable ==
    (run.outcome # "none" /\ run.registry = None) =>
        /\ run.panel = "none"
        /\ run.calls = <<>>
        /\ run.outcome = "stopped"
        /\ run.task \in Tasks

\* A run with the last task selected was stopped on an unavailable registry.
C3_Witness ==
    /\ run.registry = None
    /\ run.outcome = "stopped"
    /\ run.task = "Grammar Correction"

\* C4: once a load_pipelines() call has failed, construction is never
\* attempted again, the cached failure stays, every later call returns None
\* and no run renders a panel or invokes a handle.
C4_FailureIsTerminal ==
    /\ [](LoadFailed =>
            /\ builds = 1
            /\ cache.filled /\ cache.value = None
            /\ \A s \in Sessions : pipes[s] \in {Unassigned, None}
            /\ run.panel = "none" /\ run.calls = <<>>)
    /\ [][LoadFailed => (LoadFailed' /\ builds' = builds /\ cache' = cache)]_vars

\* After the failure a run was stopped, and every session is again in a run
\* whose call returned None.
C4_Witness ==
    /\ LoadFailed
    /\ run.outcome = "stopped"
    /\ \A s \in Sessions : pc[s] = "ui" /\ pipes[s] = None

\* C5: on the Summarization panel the min length range is [10, M-10] for the
\* chosen max length M, and every summarizer call gets min_length < max_length.
C5_MinBelowMax ==
    (run.panel = "Summarization" /\ run.min_range # <<0, 0>>) =>
        /\ run.min_range = <<SumMinLenLo, run.max_len - SumMinLenGap>>
        /\ run.min_len < run.max_len

\* C6: a handle call that raises ends that one action with the error shown:
\* the call is made once, the cached registry stays the dict first built, and
\* every run that reaches the panels afterwards holds all five handles.
C6_InvocationFailureScoped ==
    /\ [](/\ run.outcome = "error" => Len(run.calls) <= 1
          /\ invocationFailed =>
                /\ cache.filled /\ cache.value = firstBuilt
                /\ \A s \in Sessions :
                      pc[s] = "ui" =>
                          /\ ~StopsRun(pipes[s])
                          /\ \A k \in Keys : HasHandle(pipes[s], k))
    /\ [][(invocationFailed' /\ ~invocationFailed) =>
             (/\ cache' = cache
              /\ run'.outcome = "error"
              /\ \A s \in Sessions : pc[s] = "ui" /\ pc'[s] = "ui" => pipes'[s] = pipes[s])]_vars

\* After a handle call raised, a later run invoked a handle successfully.
C6_Witness ==
    /\ invocationFailed
    /\ run.outcome = "ok"
    /\ run.task = "Grammar Correction"
    /\ Len(run.calls) = 1

\* C7 as stated: every handle call gets exactly the text entered and exactly
\* the user's parameters, nothing else.
C7_PassThroughExact ==
    \A i \in CallIndices :
        /\ run.calls[i].handle = Handle(run.registry, HandleKey(run.task))
        /\ run.calls[i].text = run.text
        /\ run.calls[i].kwargs = UserParams(run.task, run.max_len, run.min_len)

\* C7 amended: every handle call gets exactly the text entered and the user's
\* parameters unchanged; the one further argument is the constant
\* num_return_sequences of the Text Generation call.
C7_PassThroughPlusFixed ==
    \A i \in CallIndices :
        /\ run.calls[i].handle = Handle(run.registry, HandleKey(run.task))
        /\ run.calls[i].text = run.text
        /\ run.calls[i].kwargs =
              UserParams(run.task, run.max_len, run.min_len)
              \cup (IF run.task = "Text Generation"
                    THEN {<<"num_return_sequences", NumReturnSequences>>}
                    ELSE {})

\* The Text Generation handle was called with a text of blanks only.
C7_Witness ==
    /\ run.task = "Text Generation"
    /\ run.calls # <<>>
    /\ run.text = <<" ">>
    /\ run.max_len = GenMaxLenHi

\* C8: a handle is only ever invoked with a non-empty text.
C8_NonEmptyInputOnly ==
    \A i \in CallIndices : run.calls[i].text # <<>>

\* C9: the label the Sentiment panel shows is the label the handle returned.
C9_ShownLabelIsReturned ==
    (run.task = "Sentiment Analysis" /\ run.outcome = "ok") => run.shown = run.label

\* C10: for every max length M of the Summarization panel the default of the
\* min length slider lies in the range [10, M-10] the slider is given.
C10_MinSliderWellFormed ==
    run.panel = "Summarization" =>
        /\ SumMinLenLo <= SumMinLenDefault
        /\ SumMinLenDefault <= run.max_len - SumMinLenGap

===========================================================================
